---- MODULE Spec2Model ----
(***************************************************************************)
(* Model of cares::detail::Channel (include/cares_service/detail/          *)
(* channel.hxx): the bridge between the c-ares resolver engine and a       *)
(* boost::asio io_context.                                                 *)
(*                                                                         *)
(* Threads of control:                                                     *)
(*   - caller threads: AsyncGetHostByName, Cancel, SetResolveMode;         *)
(*   - the strand (strand_): a FIFO of posted tasks (counter increment,    *)
(*     counter decrement, ares_process_fd);                                *)
(*   - the io_context (context_): timer handlers, socket wait handlers     *)
(*     and the posted caller callbacks.                                    *)
(* The resolver engine is external: when a lookup completes, and with      *)
(* which outcome, is a nondeterministic choice; it completes a lookup      *)
(* inside ares_gethostbyname, inside ares_process_fd or inside             *)
(* ares_cancel, by calling Channel::HostCallback.                          *)
(***************************************************************************)
EXTENDS Integers, Sequences, FiniteSets

\* ------------------------------------------------------------------ bounds
MaxQueries == 1      \* AsyncGetHostByName calls, the engine reporting anything
MaxCalls   == 2      \* AsyncGetHostByName calls, the engine reporting failures
MaxAddrs   == 1      \* addresses in one hostent
MaxProcess == 1      \* ares_process_fd tasks queued on the strand at once
MaxSockets == 2      \* socket identifiers the system hands out
MaxOpens   == 2      \* successful OpenSocket calls in one behaviour
MaxReady   == 2      \* completed socket wait handlers queued on context_

\* --------------------------------------------------------------- constants
AF_INET  == "AF_INET"
AF_INET6 == "AF_INET6"
ARES_SOCKET_BAD == "ARES_SOCKET_BAD"

ARES_SUCCESS    == "ARES_SUCCESS"
ARES_ENODATA    == "ARES_ENODATA"
ARES_ECANCELLED == "ARES_ECANCELLED"

NoError          == "no_error"           \* a default boost::system::error_code
not_implemented  == "not_implemented"    \* error::not_implemented
operation_aborted == "operation_aborted" \* boost::asio::error::operation_aborted
bad_descriptor   == "bad_descriptor"     \* boost::asio::error::bad_descriptor

\* resolve_mode.hxx: the six enumerators, and a value outside them
ipv4_only  == "ipv4_only"
ipv6_only  == "ipv6_only"
ipv4_first == "ipv4_first"
ipv6_first == "ipv6_first"
both       == "both"
unspecific == "unspecific"
Modes      == {ipv4_only, ipv6_only, ipv4_first, ipv6_first, both, unspecific}
ModeValues == Modes \cup {"undefined_mode"}

is_valid_resolve_mode(mode) == mode \in Modes

VARIABLES
    resolve_mode_,     \* Channel::resolve_mode_
    request_count_,    \* Channel::request_count_ (int64_t)
    timer_,            \* Channel::timer_: pending waits and completed handlers
    strand_,           \* tasks posted to strand_, in posting order
    context_,          \* caller callbacks posted to context_, in posting order
    queries,           \* one record per AsyncGetHostByName call
    mode_ec,           \* ec the last SetResolveMode call has set
    sockets_,          \* Channel::sockets_: the pairs <<fd, Socket>>
    handles,           \* every Socket made: fd, kind, open flag, pending waits
    ready_,            \* completed socket wait handlers queued on context_
    inside             \* the calls in progress, when calls are not atomic

vars == <<resolve_mode_, request_count_, timer_, strand_, context_, queries,
          mode_ec, sockets_, handles, ready_, inside>>

resolveVars == <<resolve_mode_, request_count_, timer_, strand_, context_,
                 queries, mode_ec>>
socketVars  == <<sockets_, handles, ready_>>

\* ------------------------------------------------------------ the Results
\* The Results type (IsEmpty, Append, Prepend, LastFamily) lives outside
\* channel.hxx; a result is the sequence of addresses <<family, index>>.
ResultIsEmpty(result) == result = <<>>
ResultAppend(result, entries) == result \o entries
ResultPrepend(result, entries) == entries \o result
\* bool LastFamily(int &family): false on an empty result, else the family of
\* the last address
HasLastFamily(result) == result # <<>>
LastFamily(result) == result[Len(result)][1]

\* struct hostent for `family` with n addresses
Hostent(family, n) == [i \in 1..n |-> <<family, i>>]

\* ---------------------------------------------------------------- timer_
\* waits: pending async_wait registrations; ok / aborted: handlers whose wait
\* completed (by expiry / by cancellation) and that context_ has yet to run.
TimerCancel(t) == [t EXCEPT !.waits = 0, !.aborted = @ + t.waits]
TimerAsyncWait(t) == [t EXCEPT !.waits = @ + 1]

\* Fault: TimerStart registers a wait without expires_from_now, which is
\* what cancels the waits already pending.
TimerStartKeepsWaits(t) == TimerAsyncWait(t)

\* Fault: TimerStop restarts the timer instead of cancelling it.
TimerStopRearms(t) == TimerAsyncWait(TimerCancel(t))

\* TimerStart: expires_from_now cancels the pending waits, then async_wait
TimerStart(t) == TimerAsyncWait(TimerCancel(t))

TimerStop(t) == TimerCancel(t)

\* -------------------------------------------------------- strand_ tasks
IncTask == [op |-> "inc", rd |-> ARES_SOCKET_BAD, wr |-> ARES_SOCKET_BAD]
DecTask == [op |-> "dec", rd |-> ARES_SOCKET_BAD, wr |-> ARES_SOCKET_BAD]
ProcessTask(rd, wr) == [op |-> "process", rd |-> rd, wr |-> wr]

NumProcess == Cardinality({i \in 1..Len(strand_) : strand_[i].op = "process"})

\* ProcessFd(rd, wr): post the ares_process_fd task to strand_
ProcessFd(strand, rd, wr) == Append(strand, ProcessTask(rd, wr))

\* ------------------------------------------------------- ResultHandler
\* Faults of ResultHandler the properties below must tell from the code:
\* unspecific takes a second answer; the preferred family is never moved to
\* the front; `both` reorders like ipv6_first.
AnswerTwice(result) == FALSE

NeverPrepend(mode, result) == FALSE

\* Fault: the error of the last completion is kept although data was merged.
KeepError(result, ec) == ec

PrependUnderBoth(mode, result) ==
    /\ HasLastFamily(result)
    /\ LastFamily(result) = (IF mode = ipv4_first THEN AF_INET6 ELSE AF_INET)

\* if (!result->IsEmpty()) break;  -- unspecific: a family has answered
AlreadyAnswered(result) == ~ResultIsEmpty(result)

\* need_prepend = (mode != both) && result->LastFamily(family)
\*                && (family == (mode == ipv4_first ? AF_INET6 : AF_INET))
NeedPrepend(mode, result) ==
    /\ mode # both
    /\ HasLastFamily(result)
    /\ LastFamily(result) = (IF mode = ipv4_first THEN AF_INET6 ELSE AF_INET)

\* if (!result->IsEmpty()) ec.clear();
ClearIfData(result, ec) == IF ~ResultIsEmpty(result) THEN NoError ELSE ec

\* Channel::ResultHandler on query record Q, with `mode` the value
\* GetResolveMode() returns at the time of the call. Returns the new
\* remaining counter and result, whether the callback is posted
\* (should_invoke_cb), and the error code it is posted with.
ResultHandler(Q, mode, ec, entries) ==
    LET req == Q.req - 1    \* --*req (uint32_t; each lookup reports once)
        result == Q.result
    IN  CASE mode = unspecific ->
               IF AlreadyAnswered(result)
               THEN [req |-> req, result |-> result, invoke |-> FALSE, ec |-> ec]
               ELSE LET r1 == IF ec = NoError /\ ResultIsEmpty(result)
                              THEN ResultAppend(result, entries)
                              ELSE result
                    IN  [req |-> req, result |-> r1,
                         invoke |-> (~ResultIsEmpty(r1) \/ req = 0),
                         ec |-> ec]
          [] mode \in {ipv4_first, ipv6_first, both} ->
               LET need_prepend == NeedPrepend(mode, result)
                   r1 == IF ec = NoError /\ ~need_prepend
                         THEN ResultAppend(result, entries)
                         ELSE IF ec = NoError /\ need_prepend
                              THEN ResultPrepend(result, entries)
                              ELSE result
               IN  IF req = 0
                   THEN [req |-> req, result |-> r1, invoke |-> TRUE,
                         ec |-> ClearIfData(r1, ec)]
                   ELSE [req |-> req, result |-> r1, invoke |-> FALSE, ec |-> ec]
          [] mode \in {ipv4_only, ipv6_only} ->
               [req |-> req,
                result |-> IF ec = NoError THEN ResultAppend(result, entries)
                           ELSE result,
                invoke |-> TRUE, ec |-> ec]
          [] OTHER ->    \* default: assert(false); break;
               [req |-> req, result |-> result, invoke |-> FALSE, ec |-> ec]

\* Fault: ResultHandler calls (*cb)(ec, *result) itself, inside the engine
\* call, and posts nothing.
InvokeInline(s, q, ec, frame) ==
    [s EXCEPT !.queries[q].ran = @ + 1, !.queries[q].inline = @ + 1]

\* boost::asio::post(context_, [cb, ec, result] { (*cb)(ec, *result); }):
\* the callback of query q is queued on context_ and not run; `frame` is the
\* engine call inside which ResultHandler is running.
PostCallback(s, q, ec, frame) ==
    [s EXCEPT !.context = Append(@, [q |-> q, ec |-> ec])]

\* Channel::HostCallback(arg, status, timeouts, hostent) for the lookup of
\* `family` of query q, called by the engine inside `frame`.
\* s = [queries, context, strand, mode]. The fields stable, log, posts and
\* posted of a query record are history: they record what happened and are
\* read by no operation.
HostCallback(s, q, family, status, hostent, frame) ==
    LET ec == IF status # ARES_SUCCESS THEN status ELSE NoError
        R  == ResultHandler(s.queries[q], s.mode, ec, hostent)
        s1 == [s EXCEPT !.queries[q].req = R.req,
                        !.queries[q].result = R.result,
                        !.queries[q].sub[family] = "done",
                        !.queries[q].stable = @ /\ s.mode = s.queries[q].mode,
                        !.queries[q].log = Append(@,
                            [family |-> family, ec |-> ec, entries |-> hostent]),
                        !.queries[q].posts = IF R.invoke
                            THEN Append(@, [at |-> Len(s.queries[q].log) + 1,
                                            ec |-> R.ec])
                            ELSE @,
                        !.queries[q].posted = IF R.invoke THEN @ + 1 ELSE @]
        s2 == IF R.invoke THEN PostCallback(s1, q, R.ec, frame) ELSE s1
    IN  [s2 EXCEPT !.strand = Append(@, DecTask)]

\* What the engine can report for a lookup of `family`
Failure == [status |-> ARES_ENODATA, hostent |-> <<>>]
Outcomes(family) ==
    {[status |-> ARES_SUCCESS, hostent |-> Hostent(family, n)] : n \in 0..MaxAddrs}
        \cup {Failure}
StillPending == [status |-> "pending", hostent |-> <<>>]

\* Channel::AsyncGetHostByNameInternal(domain, family, cb): ares_gethostbyname
\* either keeps the lookup pending (c = StillPending) or completes it before
\* returning (c an outcome); then the counter increment is posted.
AsyncGetHostByNameInternal(s, q, family, c) ==
    LET s1 == IF c = StillPending
              THEN [s EXCEPT !.queries[q].sub[family] = "pending"]
              ELSE HostCallback(s, q, family, c.status, c.hostent,
                                "ares_gethostbyname")
    IN  [s1 EXCEPT !.strand = Append(@, IncTask)]

Snapshot == [queries |-> queries, context |-> context_, strand |-> strand_,
             mode |-> resolve_mode_]

\* lookups the engine has accepted and not yet completed
Pending == {<<q, f>> \in (1..Len(queries)) \X {AF_INET, AF_INET6} :
               queries[q].sub[f] = "pending"}

\* Fault: AsyncGetHostByName looks up both families under every mode.
BothFamilies(mode) == <<AF_INET, AF_INET6>>

\* The families AsyncGetHostByName looks up under `mode`, in issue order
Families(mode) ==
    (IF mode # ipv6_only THEN <<AF_INET>> ELSE <<>>)
        \o (IF mode # ipv4_only THEN <<AF_INET6>> ELSE <<>>)

\* The state AsyncGetHostByName sets up: the local `mode`, remain_requests
\* and the caller's (empty) result.
NewQuery(mode) ==
    [mode   |-> mode,
     req    |-> IF mode # ipv6_only /\ mode # ipv4_only THEN 2 ELSE 1,
     result |-> <<>>,
     sub    |-> [f \in {AF_INET, AF_INET6} |-> "none"],
     stable |-> TRUE,
     log    |-> <<>>,
     posts  |-> <<>>,
     posted |-> 0,
     ran    |-> 0,
     inline |-> 0]

\* A query is over once each of its lookups has reported and its callback
\* has been posted once and has run: the last owners of result and
\* remain_requests are gone, and nothing of it is kept. A query whose
\* callback was posted twice, or never, stays as it is.
Over(Q, q, context) ==
    /\ Q.mode # "over"
    /\ \A f \in {AF_INET, AF_INET6} : Q.sub[f] \in {"none", "done"}
    /\ \A i \in 1..Len(context) : context[i].q # q
    /\ Q.posted = 1 /\ Q.ran = 1 /\ Q.inline = 0

Release(qs, context) ==
    [q \in 1..Len(qs) |->
        IF Over(qs[q], q, context)
        THEN [NewQuery("over") EXCEPT !.req = 0, !.posted = 1, !.ran = 1]
        ELSE qs[q]]

InFlight == {q \in 1..Len(queries) : queries[q].mode # "over"}

\* ---------------------------------------------------------------- Init
\* The state the constructor leaves: request_count_(0), resolve_mode_(both),
\* nothing posted, no socket.
Init ==
    /\ resolve_mode_ = both
    /\ request_count_ = 0
    /\ timer_ = [waits |-> 0, ok |-> 0, aborted |-> 0]
    /\ strand_ = <<>>
    /\ context_ = <<>>
    /\ queries = <<>>
    /\ mode_ec = NoError
    /\ sockets_ = {}
    /\ handles = <<>>
    /\ ready_ = <<>>
    /\ inside = {}

\* ------------------------------------------------------- environments
\* What the callers and the engine do in a behaviour: how many
\* AsyncGetHostByName calls are made, the modes passed to SetResolveMode and
\* what the engine reports. A caller makes its next AsyncGetHostByName call
\* when its earlier queries are over.
Proper ==
    [calls |-> MaxQueries, modes |-> Modes,
     out |-> [f \in {AF_INET, AF_INET6} |-> Outcomes(f)]]
Failing ==
    [calls |-> MaxCalls, modes |-> Modes,
     out |-> [f \in {AF_INET, AF_INET6} |-> {Failure}]]
Misuse ==
    [calls |-> MaxQueries, modes |-> ModeValues,
     out |-> [f \in {AF_INET, AF_INET6} |-> {Failure}]]
\* callers switch between a mode with one lookup and a mode with two
Timed ==
    [calls |-> MaxCalls, modes |-> {ipv4_only, both},
     out |-> [f \in {AF_INET, AF_INET6} |-> {Failure}]]

\* ------------------------------------------------------ caller threads
\* Channel::AsyncGetHostByName: one AsyncGetHostByNameInternal call per
\* family of the mode read on entry; cs[i] is what the engine does with the
\* i-th lookup.
RECURSIVE IssueLookups(_, _, _, _)
IssueLookups(s, q, fams, cs) ==
    IF fams = <<>> THEN s
    ELSE IssueLookups(
             AsyncGetHostByNameInternal(s, q, Head(fams), Head(cs)),
             q, Tail(fams), Tail(cs))

\* the engine's choices for the lookups of `fams`
RECURSIVE Choices(_, _)
Choices(E, fams) ==
    IF fams = <<>> THEN {<<>>}
    ELSE {<<c>> \o cs : c \in {StillPending} \cup E.out[Head(fams)],
                        cs \in Choices(E, Tail(fams))}

AsyncGetHostByNameEffect(E) ==
    /\ Len(queries) < E.calls
    /\ InFlight = {}
    /\ LET mode == resolve_mode_
           q    == Len(queries) + 1
           s0   == [Snapshot EXCEPT !.queries = Append(@, NewQuery(mode))]
       IN  \E cs \in Choices(E, Families(mode)) :
             LET s1 == IssueLookups(s0, q, Families(mode), cs)
             IN  /\ queries' = Release(s1.queries, s1.context)
                 /\ context_' = s1.context
                 /\ strand_' = s1.strand
    /\ UNCHANGED <<resolve_mode_, request_count_, timer_, mode_ec>>
    /\ UNCHANGED socketVars

AsyncGetHostByName(E) == AsyncGetHostByNameEffect(E) /\ UNCHANGED inside

\* Sequences listing every element of the finite set S once
RECURSIVE Orders(_)
Orders(S) ==
    IF S = {} THEN {<<>>}
    ELSE UNION {{<<x>> \o o : o \in Orders(S \ {x})} : x \in S}

\* ares_cancel: the engine completes every pending lookup, in the order
\* `order`, with ARES_ECANCELLED
RECURSIVE CancelLookups(_, _)
CancelLookups(s, order) ==
    IF order = <<>> THEN s
    ELSE CancelLookups(
             HostCallback(s, Head(order)[1], Head(order)[2], ARES_ECANCELLED,
                          <<>>, "ares_cancel"),
             Tail(order))

\* Channel::Cancel
CancelEffect ==
    /\ \E order \in Orders(Pending) :
          LET s1 == CancelLookups(Snapshot, order)
          IN  /\ queries' = Release(s1.queries, s1.context)
              /\ context_' = s1.context
              /\ strand_' = s1.strand
    /\ timer_' = TimerStop(timer_)
    /\ UNCHANGED <<resolve_mode_, request_count_, mode_ec>>
    /\ UNCHANGED socketVars

Cancel == CancelEffect /\ UNCHANGED inside

\* Fault: SetResolveMode stores the mode without validating it.
SetResolveModeUnchecked(mode) ==
    /\ mode_ec' = NoError
    /\ resolve_mode_' = mode
    /\ UNCHANGED <<request_count_, timer_, strand_, context_, queries>>
    /\ UNCHANGED socketVars
    /\ UNCHANGED inside

\* Channel::SetResolveMode(mode, ec)
SetResolveMode(mode) ==
    /\ IF ~is_valid_resolve_mode(mode)
       THEN /\ mode_ec' = not_implemented
            /\ UNCHANGED resolve_mode_
       ELSE /\ mode_ec' = NoError
            /\ resolve_mode_' = mode
    /\ UNCHANGED <<request_count_, timer_, strand_, context_, queries>>
    /\ UNCHANGED socketVars
    /\ UNCHANGED inside

\* ------------------------------------------------------------- strand_
\* the task AsyncGetHostByNameInternal posts
StrandIncrementEffect ==
    /\ strand_ # <<>>
    /\ Head(strand_).op = "inc"
    /\ strand_' = Tail(strand_)
    /\ timer_' = IF request_count_ = 0 THEN TimerStart(timer_) ELSE timer_
    /\ request_count_' = request_count_ + 1
    /\ UNCHANGED <<resolve_mode_, context_, queries, mode_ec>>
    /\ UNCHANGED socketVars

StrandIncrement == StrandIncrementEffect /\ UNCHANGED inside

\* the task HostCallback posts
StrandDecrementEffect ==
    /\ strand_ # <<>>
    /\ Head(strand_).op = "dec"
    /\ strand_' = Tail(strand_)
    /\ request_count_' = request_count_ - 1
    /\ timer_' = IF request_count_' = 0 THEN TimerStop(timer_) ELSE timer_
    /\ UNCHANGED <<resolve_mode_, context_, queries, mode_ec>>
    /\ UNCHANGED socketVars

StrandDecrement == StrandDecrementEffect /\ UNCHANGED inside

\* the task ProcessFd posts: ares_process_fd(channel_, rd, wr). The engine
\* completes no lookup, or one of the pending lookups.
StrandProcessEffect(E) ==
    /\ strand_ # <<>>
    /\ Head(strand_).op = "process"
    /\ \/ /\ strand_' = Tail(strand_)
          /\ UNCHANGED <<context_, queries>>
       \/ \E p \in Pending : \E c \in E.out[p[2]] :
            LET s0 == [Snapshot EXCEPT !.strand = Tail(@)]
                s1 == HostCallback(s0, p[1], p[2], c.status, c.hostent,
                                   "ares_process_fd")
            IN  /\ queries' = Release(s1.queries, s1.context)
                /\ context_' = s1.context
                /\ strand_' = s1.strand
    /\ UNCHANGED <<resolve_mode_, request_count_, timer_, mode_ec>>
    /\ UNCHANGED socketVars

StrandProcess(E) == StrandProcessEffect(E) /\ UNCHANGED inside

\* ------------------------------------------------------------ context_
\* the wait on timer_ expires: its handler is queued with no error
TimerExpire ==
    /\ timer_.waits > 0
    /\ timer_' = [timer_ EXCEPT !.waits = 0, !.ok = @ + timer_.waits]
    /\ UNCHANGED <<resolve_mode_, request_count_, strand_, context_, queries,
                   mode_ec>>
    /\ UNCHANGED socketVars
    /\ UNCHANGED inside

\* Fault: TimerCallback arms the timer again whenever its wait was not
\* cancelled, whatever request_count_ is.
TimerCallbackKeepsRunning(ec, elapsed) ==
    /\ IF ec = NoError THEN timer_.ok > 0 ELSE timer_.aborted > 0
    /\ elapsed => NumProcess < MaxProcess
    /\ strand_' = IF elapsed
                  THEN ProcessFd(strand_, ARES_SOCKET_BAD, ARES_SOCKET_BAD)
                  ELSE strand_
    /\ LET t == IF ec = NoError THEN [timer_ EXCEPT !.ok = @ - 1]
                ELSE [timer_ EXCEPT !.aborted = @ - 1]
       IN  timer_' = IF ec = NoError
                     THEN TimerAsyncWait(TimerCancel(t))
                     ELSE t
    /\ UNCHANGED <<resolve_mode_, request_count_, context_, queries,
                   mode_ec>>
    /\ UNCHANGED socketVars
    /\ UNCHANGED inside

\* Channel::TimerCallback(ec). `elapsed`: a period has passed since
\* last_tick_ (after <= 0).
TimerCallbackEffect(ec, elapsed) ==
    /\ IF ec = NoError THEN timer_.ok > 0 ELSE timer_.aborted > 0
    /\ elapsed => NumProcess < MaxProcess
    /\ strand_' = IF elapsed
                  THEN ProcessFd(strand_, ARES_SOCKET_BAD, ARES_SOCKET_BAD)
                  ELSE strand_
    /\ LET t == IF ec = NoError THEN [timer_ EXCEPT !.ok = @ - 1]
                ELSE [timer_ EXCEPT !.aborted = @ - 1]
       IN  timer_' = IF ec = NoError /\ request_count_ # 0
                     THEN TimerAsyncWait(TimerCancel(t))
                     ELSE t
    /\ UNCHANGED <<resolve_mode_, request_count_, context_, queries,
                   mode_ec>>
    /\ UNCHANGED socketVars

TimerCallback(ec, elapsed) == TimerCallbackEffect(ec, elapsed) /\ UNCHANGED inside

\* context_ runs the posted lambda: (*cb)(ec, *result)
RunCallback ==
    /\ context_ # <<>>
    /\ context_' = Tail(context_)
    /\ queries' = Release([queries EXCEPT ![Head(context_).q].ran = @ + 1],
                          context_')
    /\ UNCHANGED <<resolve_mode_, request_count_, timer_, strand_,
                   mode_ec>>
    /\ UNCHANGED socketVars
    /\ UNCHANGED inside

\* ----------------------------------------------- Socket Function Bridge
\* The engine calls these (through ares_socket_functions and sock_state_cb)
\* from inside ares_gethostbyname, ares_process_fd and ares_cancel. A Socket
\* is a record: fd, is_tcp_, open (its asio socket is open), rd / wr (pending
\* wait_read / wait_write registrations), late (history: ProcessFd calls
\* its wait handlers made after it was closed) and readable / writeable
\* (history: the arguments of the last SocketStateCb for it, while open).
SOCK_STREAM == "SOCK_STREAM"
SOCK_DGRAM  == "SOCK_DGRAM"

Fds == {fd \in 1..MaxSockets : TRUE}
OpenFds == {e[1] : e \in sockets_}
\* sockets_.find(fd)->second
Find(fd) == (CHOOSE e \in sockets_ : e[1] = fd)[2]

\* Socket::Cancel / the cancellation inside Socket::Close: every pending wait
\* of handle h completes with operation_aborted and its handler is queued
Aborted(h, H) ==
    [i \in 1..(H.rd + H.wr) |->
        [h |-> h, dir |-> IF i <= H.rd THEN "read" ELSE "write",
         ec |-> operation_aborted]]

\* Fault: OpenSocket registers the socket also when opening it failed.
OpenSocketKeepsFailed(type, fd, fails) ==
    /\ Len(handles) < MaxOpens
    /\ fd \in Fds \ {handles[h].fd : h \in {k \in 1..Len(handles) : handles[k].open}}
    /\ handles' = Append(handles,
           [fd |-> fd, is_tcp |-> (type = SOCK_STREAM), open |-> ~fails,
            rd |-> 0, wr |-> 0, late |-> 0,
                    readable |-> FALSE, writeable |-> FALSE])
    /\ sockets_' = sockets_ \cup {<<fd, Len(handles) + 1>>}
    /\ UNCHANGED ready_
    /\ UNCHANGED resolveVars
    /\ UNCHANGED inside

\* OpenSocket(family, type, protocol, arg): `fails` is sock.open or
\* sock.non_blocking setting ec; fd is the native handle of the new socket
OpenSocket(type, fd, fails) ==
    /\ Len(handles) < MaxOpens
    /\ fd \in Fds \ {handles[h].fd : h \in {k \in 1..Len(handles) : handles[k].open}}
    /\ IF fails
       THEN UNCHANGED <<sockets_, handles>>
       ELSE /\ handles' = Append(handles,
                   [fd |-> fd, is_tcp |-> (type = SOCK_STREAM), open |-> TRUE,
                    rd |-> 0, wr |-> 0, late |-> 0,
                    readable |-> FALSE, writeable |-> FALSE])
            /\ sockets_' = sockets_ \cup {<<fd, Len(handles) + 1>>}
    /\ UNCHANGED ready_
    /\ UNCHANGED resolveVars
    /\ UNCHANGED inside

\* CloseSocket(fd, arg): Socket::Close, then erase
CloseSocket(fd) ==
    /\ fd \in OpenFds
    /\ LET h == Find(fd)
       IN  /\ ready_' = ready_ \o Aborted(h, handles[h])
           /\ handles' = [handles EXCEPT ![h].open = FALSE,
                                         ![h].rd = 0, ![h].wr = 0,
                                         ![h].readable = FALSE,
                                         ![h].writeable = FALSE]
           /\ sockets_' = sockets_ \ {<<fd, h>>}
    /\ UNCHANGED resolveVars
    /\ UNCHANGED inside

\* SocketStateCb(arg, fd, readable, writeable): Socket::Cancel, then
\* AsyncWaitRead if readable and AsyncWaitWrite if writeable
SocketStateCb(fd, readable, writeable) ==
    /\ fd \in OpenFds
    /\ LET h == Find(fd)
       IN  /\ Len(ready_) + handles[h].rd + handles[h].wr <= MaxReady
           /\ ready_' = ready_ \o Aborted(h, handles[h])
           /\ handles' = [handles EXCEPT ![h].rd = IF readable THEN 1 ELSE 0,
                                         ![h].wr = IF writeable THEN 1 ELSE 0,
                                         ![h].readable = readable,
                                         ![h].writeable = writeable]
    /\ UNCHANGED sockets_
    /\ UNCHANGED resolveVars
    /\ UNCHANGED inside

\* the socket of handle h becomes readable / writable: one pending wait
\* completes with no error
SocketReady(h, dir) ==
    /\ h \in 1..Len(handles)
    /\ Len(ready_) < MaxReady
    /\ IF dir = "read" THEN handles[h].rd > 0 ELSE handles[h].wr > 0
    /\ handles' = IF dir = "read" THEN [handles EXCEPT ![h].rd = @ - 1]
                  ELSE [handles EXCEPT ![h].wr = @ - 1]
    /\ ready_' = Append(ready_, [h |-> h, dir |-> dir, ec |-> NoError])
    /\ UNCHANGED sockets_
    /\ UNCHANGED resolveVars
    /\ UNCHANGED inside

\* The handler of Socket::AsyncWaitRead / AsyncWaitWrite, run by context_:
\* cb() is ProcessFd(fd, ARES_SOCKET_BAD) for a read wait and
\* ProcessFd(ARES_SOCKET_BAD, fd) for a write wait; then, if (!ec), the wait
\* is registered again. async_wait on a closed socket completes at once with
\* bad_descriptor.
WaitHandler(i) ==
    /\ i \in 1..Len(ready_)
    /\ NumProcess < MaxProcess
    /\ LET w  == ready_[i]
           H  == handles[w.h]
           rest == SubSeq(ready_, 1, i - 1) \o SubSeq(ready_, i + 1, Len(ready_))
       IN  /\ strand_' = IF w.dir = "read"
                         THEN ProcessFd(strand_, H.fd, ARES_SOCKET_BAD)
                         ELSE ProcessFd(strand_, ARES_SOCKET_BAD, H.fd)
           /\ IF w.ec # NoError
              THEN /\ ready_' = rest
                   /\ handles' = [handles EXCEPT ![w.h].late =
                                     IF H.open THEN @ ELSE 1]
              ELSE IF H.open
                   THEN /\ ready_' = rest
                        /\ handles' = IF w.dir = "read"
                                      THEN [handles EXCEPT ![w.h].rd = @ + 1]
                                      ELSE [handles EXCEPT ![w.h].wr = @ + 1]
                   ELSE /\ ready_' = Append(rest, [h |-> w.h, dir |-> w.dir,
                                                   ec |-> bad_descriptor])
                        /\ handles' = [handles EXCEPT ![w.h].late = 1]
    /\ UNCHANGED sockets_
    /\ UNCHANGED <<resolve_mode_, request_count_, timer_, context_, queries,
                   mode_ec>>
    /\ UNCHANGED inside

NextSocket(E) ==
    \/ \E type \in {SOCK_STREAM, SOCK_DGRAM} : \E fd \in Fds :
          \E fails \in BOOLEAN : OpenSocket(type, fd, fails)
    \/ \E fd \in Fds : CloseSocket(fd)
    \/ \E fd \in Fds : \E readable \in BOOLEAN : \E writeable \in BOOLEAN :
          SocketStateCb(fd, readable, writeable)
    \/ \E h \in 1..MaxOpens : \E dir \in {"read", "write"} : SocketReady(h, dir)
    \/ \E i \in 1..MaxReady : WaitHandler(i)
    \/ StrandProcess(E)

NextResolve(E) ==
    \/ AsyncGetHostByName(E)
    \/ Cancel
    \/ \E mode \in E.modes : SetResolveMode(mode)
    \/ StrandIncrement
    \/ StrandDecrement
    \/ StrandProcess(E)
    \/ TimerExpire
    \/ \E ec \in {NoError, operation_aborted} : \E elapsed \in BOOLEAN :
          TimerCallback(ec, elapsed)
    \/ RunCallback

\* Callers pass the six modes; the engine reports every outcome.
Spec == Init /\ [][NextResolve(Proper)]_vars

\* Several queries in a row; every lookup fails or is cancelled.
SpecTimer == Init /\ [][NextResolve(Failing)]_vars

\* Callers pass SetResolveMode any value; every lookup fails or is cancelled.
SpecMode == Init /\ [][NextResolve(Misuse)]_vars

\* The engine drives the sockets; no lookup is in flight.
SpecSock == Init /\ [][NextSocket(Misuse)]_vars

\* What the io_context guarantees while it is run: every task posted to
\* strand_ is run, a pending timer wait expires unless it is cancelled, and
\* every queued timer handler is run.
Scheduling(E) ==
    /\ WF_vars(StrandIncrement)
    /\ WF_vars(StrandDecrement)
    /\ WF_vars(StrandProcess(E))
    /\ WF_vars(TimerExpire)
    /\ WF_vars(\E ec \in {NoError, operation_aborted} : \E elapsed \in BOOLEAN :
                  TimerCallback(ec, elapsed))

\* Several queries in a row, every lookup fails or is cancelled, and the
\* io_context keeps running.
SpecLive == Init /\ [][NextResolve(Timed)]_vars /\ Scheduling(Timed)

\* ------------------------------------------------------------- threads
\* Calls that take time. A call in progress is a record in `inside`: the
\* thread running it and the code it runs. Three threads: the application
\* thread that calls the Channel ("caller"), the io_context thread running
\* the tasks of strand_ ("strand", one task at a time), and an io_context
\* thread running the handlers that were not posted to strand_ ("context").
Section(thread, site) == [thread |-> thread, site |-> site]

Running(thread) == {m \in inside : m.thread = thread}

\* the call into the Channel or the engine that a task of strand_ makes
TaskSite(op) ==
    CASE op = "inc"     -> "increment"
      [] op = "dec"     -> "decrement"
      [] op = "process" -> "ares_process_fd"

\* What the code of a section reads or writes. The engine (channel_) calls
\* OpenSocket, CloseSocket and SocketStateCb, which use sockets_, from inside
\* its entry points.
Touches(site) ==
    CASE site = "ares_gethostbyname" -> {"channel_", "sockets_"}
      [] site = "ares_cancel"        -> {"channel_", "sockets_", "timer_"}
      [] site = "ares_process_fd"    -> {"channel_", "sockets_", "last_tick_"}
      [] site = "increment"          -> {"request_count_", "timer_",
                                         "last_tick_"}
      [] site = "decrement"          -> {"request_count_", "timer_"}
      [] site = "TimerCallback"      -> {"request_count_", "timer_",
                                         "last_tick_"}

\* the application calls AsyncGetHostByName or Cancel
CallerEnters(E) ==
    /\ Running("caller") = {}
    /\ \/ /\ Len(queries) < E.calls
          /\ InFlight = {}
          /\ inside' = inside \cup {Section("caller", "ares_gethostbyname")}
       \/ inside' = inside \cup {Section("caller", "ares_cancel")}
    /\ UNCHANGED resolveVars
    /\ UNCHANGED socketVars

\* the call returns to the application
CallerReturns(E) ==
    /\ \E m \in Running("caller") :
          /\ IF m.site = "ares_gethostbyname"
             THEN AsyncGetHostByNameEffect(E)
             ELSE CancelEffect
          /\ inside' = inside \ {m}

\* the io_context takes the next task of strand_ when none is running
StrandEnters ==
    /\ Running("strand") = {}
    /\ strand_ # <<>>
    /\ inside' = inside \cup {Section("strand", TaskSite(Head(strand_).op))}
    /\ UNCHANGED resolveVars
    /\ UNCHANGED socketVars

\* the task returns
StrandReturns(E) ==
    /\ \E m \in Running("strand") :
          /\ CASE m.site = "increment"       -> StrandIncrementEffect
               [] m.site = "decrement"       -> StrandDecrementEffect
               [] m.site = "ares_process_fd" -> StrandProcessEffect(E)
          /\ inside' = inside \ {m}

\* the io_context runs a queued handler of timer_
ContextEnters ==
    /\ Running("context") = {}
    /\ timer_.ok + timer_.aborted > 0
    /\ inside' = inside \cup {Section("context", "TimerCallback")}
    /\ UNCHANGED resolveVars
    /\ UNCHANGED socketVars

\* the handler returns
ContextReturns ==
    /\ \E m \in Running("context") :
          /\ \E ec \in {NoError, operation_aborted} : \E elapsed \in BOOLEAN :
                TimerCallbackEffect(ec, elapsed)
          /\ inside' = inside \ {m}

NextThreads(E) ==
    \/ CallerEnters(E)
    \/ CallerReturns(E)
    \/ StrandEnters
    \/ StrandReturns(E)
    \/ ContextEnters
    \/ ContextReturns
    \/ TimerExpire
    \/ RunCallback

\* The application calls from a thread of its own, the io_context is run by
\* two threads; every lookup fails or is cancelled.
SpecThreads == Init /\ [][NextThreads(Timed)]_vars

\* ================================================================ claims
QueryIds == 1..Len(queries)

\* every lookup AsyncGetHostByName issued for query q has reported
Reported(q) ==
    \/ queries[q].mode = "over"
    \/ /\ \A f \in {AF_INET, AF_INET6} : queries[q].sub[f] # "pending"
       /\ Len(queries[q].log) > 0

\* query q was issued under `mode` and each of its completions so far was
\* handled with resolve_mode_ still equal to `mode`
Under(q, mode) == queries[q].mode = mode /\ queries[q].stable

\* the callbacks of query q waiting on context_
Queued(q) == {i \in 1..Len(context_) : context_[i].q = q}

HasData(e) == e.ec = NoError /\ e.entries # <<>>

\* the data of the successful completions of `log`, in completion order
RECURSIVE Concat(_)
Concat(log) ==
    IF log = <<>> THEN <<>>
    ELSE (IF Head(log).ec = NoError THEN Head(log).entries ELSE <<>>)
             \o Concat(Tail(log))

\* ---- C1
\* C1: the callback of every query is posted exactly once: never twice, and
\* once when all of its lookups have reported, also when SetResolveMode or
\* Cancel are called while it is in flight.
C1_PostedExactlyOnce ==
    \A q \in QueryIds :
        /\ queries[q].posted <= 1
        /\ Reported(q) => queries[q].posted = 1

\* ---- C2
\* no counter update is queued on strand_ and no completed handler of timer_
\* is waiting to run
Quiet ==
    /\ \A i \in 1..Len(strand_) : strand_[i].op = "process"
    /\ timer_.ok = 0
    /\ timer_.aborted = 0

\* C2: timer_ has a pending wait iff request_count_ > 0. The claim states
\* this of every state; it is checked in the states that favour it most,
\* those with no counter update queued on strand_ and no completed timer
\* handler waiting to run.
C2_TimerIffCount == Quiet => ((timer_.waits > 0) <=> (request_count_ > 0))

\* ---- C3
Preferred(mode) == IF mode = ipv4_first THEN AF_INET ELSE AF_INET6

\* every address of `family` precedes every address of another family
LeadsWith(result, family) ==
    \A i, j \in 1..Len(result) :
        (result[i][1] = family /\ result[j][1] # family) => i < j

Range(seq) == {seq[i] : i \in 1..Len(seq)}

\* C3: under ipv4_first (ipv6_first), when both lookups succeeded with data,
\* the result the queued callback will receive holds the addresses of both
\* and lists every IPv4 (IPv6) address before every address of the other
\* family, whichever lookup completed first.
C3_PreferredFamilyLeads ==
    \A q \in QueryIds : \A mode \in {ipv4_first, ipv6_first} :
        (/\ Under(q, mode)
         /\ Queued(q) # {}
         /\ Len(queries[q].log) = 2
         /\ HasData(queries[q].log[1])
         /\ HasData(queries[q].log[2]))
        => /\ LeadsWith(queries[q].result, Preferred(mode))
           /\ Range(queries[q].result) =
                 Range(queries[q].log[1].entries)
                     \cup Range(queries[q].log[2].entries)
           /\ Len(queries[q].result) =
                 Len(queries[q].log[1].entries) + Len(queries[q].log[2].entries)

\* C3, witness: under ipv4_first the IPv6 lookup completed first, both with
\* data, and the callback is queued.
C3_Witness ==
    \E q \in QueryIds :
        /\ Under(q, ipv4_first)
        /\ Queued(q) # {}
        /\ Len(queries[q].log) = 2
        /\ queries[q].log[1].family = AF_INET6
        /\ HasData(queries[q].log[1])
        /\ HasData(queries[q].log[2])

\* ---- C4
\* C4: under both, the result the queued callback will receive is the data
\* of the successful lookups in completion order, and the callback carries
\* no error when the result is not empty.
C4_BothConcatenates ==
    \A q \in QueryIds :
        (Under(q, both) /\ Queued(q) # {})
        => /\ queries[q].result = Concat(queries[q].log)
           /\ \A i \in Queued(q) :
                 queries[q].result # <<>> => context_[i].ec = NoError

\* C4, witness: under both the IPv4 lookup completed first with data, the
\* IPv6 lookup failed, and the callback is queued.
C4_Witness ==
    \E q \in QueryIds :
        /\ Under(q, both)
        /\ Queued(q) # {}
        /\ Len(queries[q].log) = 2
        /\ queries[q].log[1].family = AF_INET
        /\ HasData(queries[q].log[1])
        /\ queries[q].log[2].ec # NoError

\* ---- C5
\* the completions of `log` that brought data
DataAt(log) == {k \in 1..Len(log) : HasData(log[k])}
FirstData(log) == CHOOSE k \in DataAt(log) : \A j \in DataAt(log) : k <= j

\* C5: under unspecific, once a lookup has completed with data the callback
\* has been posted at that completion, without error, the result is that
\* lookup's data and stays so, and nothing more is posted; when no lookup
\* has brought data the callback is posted only by the last completion.
C5_UnspecificFirstData ==
    \A q \in QueryIds :
        Under(q, unspecific) =>
            LET Q == queries[q]
            IN  IF DataAt(Q.log) # {}
                THEN /\ Q.posts = <<[at |-> FirstData(Q.log), ec |-> NoError]>>
                     /\ Q.result = Q.log[FirstData(Q.log)].entries
                ELSE /\ Q.result = <<>>
                     /\ Q.posts = IF Len(Q.log) = 2
                                  THEN <<[at |-> 2, ec |-> Q.log[2].ec]>>
                                  ELSE <<>>

\* C5, witness: under unspecific the first completion brought data, the
\* second one too, and the first one's callback is still queued.
C5_Witness ==
    \E q \in QueryIds :
        /\ Under(q, unspecific)
        /\ Len(queries[q].log) = 2
        /\ HasData(queries[q].log[1])
        /\ HasData(queries[q].log[2])
        /\ Queued(q) # {}

\* ---- C6
OnlyFamily(mode) == IF mode = ipv4_only THEN AF_INET ELSE AF_INET6
OtherFamily(family) == IF family = AF_INET THEN AF_INET6 ELSE AF_INET

\* C6: under ipv4_only (ipv6_only) exactly the AF_INET (AF_INET6) lookup is
\* issued, the remaining counter starts at 1, and the callback is posted at
\* its completion with its error code and, as result, its data (nothing on
\* failure).
C6_OnlyOneLookup ==
    \A q \in QueryIds : \A mode \in {ipv4_only, ipv6_only} :
        Under(q, mode) =>
            LET Q == queries[q]
            IN  /\ Q.sub[OtherFamily(OnlyFamily(mode))] = "none"
                /\ Q.sub[OnlyFamily(mode)] # "none"
                /\ Len(Q.log) = 0 => (Q.req = 1 /\ Q.posts = <<>>)
                /\ Len(Q.log) > 0 =>
                      /\ Len(Q.log) = 1
                      /\ Q.log[1].family = OnlyFamily(mode)
                      /\ Q.posts = <<[at |-> 1, ec |-> Q.log[1].ec]>>
                      /\ Q.result = Q.log[1].entries
                      /\ Q.log[1].ec # NoError => Q.result = <<>>

\* C6, witness: under ipv4_only the lookup failed and the callback, with
\* that error and an empty result, is queued.
C6_Witness ==
    \E q \in QueryIds :
        /\ Under(q, ipv4_only)
        /\ Len(queries[q].log) = 1
        /\ queries[q].log[1].ec = ARES_ENODATA
        /\ \E i \in Queued(q) : context_[i].ec = ARES_ENODATA

\* ---- C7
\* C7: a SetResolveMode call with a value outside the six modes sets
\* not_implemented and leaves resolve_mode_ as it was; with one of the six
\* modes it sets no error and resolve_mode_ becomes that mode.
C7_SetResolveMode ==
    [][\A mode \in ModeValues :
          SetResolveMode(mode) =>
              IF mode \in Modes
              THEN mode_ec' = NoError /\ resolve_mode_' = mode
              ELSE mode_ec' = not_implemented /\ resolve_mode_' = resolve_mode_
      ]_vars

\* C7, witness: an undefined mode was refused while another mode than the
\* constructor's was in effect.
C7_Witness == mode_ec = not_implemented /\ resolve_mode_ = ipv6_first

\* ---- C8
\* C8: no callback is run inside the engine call in which ResultHandler
\* posts it: each posted callback is on context_ or has been run from there.
C8_CallbackOnlyPosted ==
    \A q \in QueryIds :
        /\ queries[q].inline = 0
        /\ queries[q].posted = queries[q].ran + Cardinality(Queued(q))

\* C8, witness: a lookup completed inside ares_gethostbyname, its callback
\* was posted and has not run when AsyncGetHostByName has returned.
C8_Witness ==
    \E q \in QueryIds :
        /\ queries[q].mode # "over"
        /\ queries[q].posted = 1
        /\ queries[q].ran = 0
        /\ Queued(q) # {}
        /\ Pending = {}
        /\ \A i \in 1..Len(strand_) : strand_[i].op # "process"
        /\ request_count_ = 0

\* ---- C9
\* C9: once CloseSocket(fd) has returned, no wait handler of the closed
\* Socket calls ProcessFd.
C9_NoCallbackAfterClose ==
    \A h \in 1..Len(handles) : handles[h].late = 0

\* ---- C10
WasCancelled(q) ==
    \E k \in 1..Len(queries[q].log) : queries[q].log[k].ec = ARES_ECANCELLED

\* C10: a query with a lookup that Cancel() aborted has its callback posted
\* exactly once when all its lookups have reported; and when no counter
\* update is left on strand_ while a lookup is in flight, timer_ is armed or
\* its handler is about to re-arm it.
C10_CancelKeepsContract ==
    /\ \A q \in QueryIds :
          (WasCancelled(q) /\ Reported(q)) => queries[q].posted = 1
    /\ (Pending # {} /\ \A i \in 1..Len(strand_) : strand_[i].op = "process")
          => (timer_.waits > 0 \/ timer_.ok > 0)

\* ---- C11
\* no lookup is in flight, request_count_ is 0, timer_ is not armed and no
\* counter update is queued on strand_
Idle ==
    /\ Pending = {}
    /\ request_count_ = 0
    /\ timer_.waits = 0
    /\ \A i \in 1..Len(strand_) : strand_[i].op = "process"

\* C11: a Cancel() call made when no lookup is in flight (request_count_ = 0,
\* timer not armed, no counter update queued) changes nothing: request_count_,
\* timer_, sockets_, resolve_mode_ and the error of the last SetResolveMode
\* stay as they are and no callback or task is posted; so a second call in a
\* row starts from the same state and changes nothing either.
C11_CancelWhenIdle == [][(Idle /\ Cancel) => UNCHANGED vars]_vars

\* C11, witness: a query has been issued and is over, its counter updates
\* and every queued timer handler have run: the state in which Cancel() is
\* called with nothing in flight, the first time and again.
C11_Witness ==
    /\ Idle
    /\ Len(queries) > 0
    /\ InFlight = {}
    /\ timer_.ok = 0
    /\ timer_.aborted = 0
    /\ strand_ = <<>>
    /\ context_ = <<>>

\* ---- C12
\* What a query issued under `mode` posts and accumulates when each of the
\* completions of `log` is merged under `mode`, the policy in effect at its
\* AsyncGetHostByName call. Q holds req, result and posts so far; k is the
\* number of completions already merged.
RECURSIVE Replay(_, _, _, _)
Replay(Q, mode, log, k) ==
    IF log = <<>> THEN Q
    ELSE LET R == ResultHandler(Q, mode, Head(log).ec, Head(log).entries)
         IN  Replay([Q EXCEPT !.req = R.req,
                              !.result = R.result,
                              !.posts = IF R.invoke
                                        THEN Append(@, [at |-> k + 1, ec |-> R.ec])
                                        ELSE @],
                    mode, Tail(log), k + 1)

\* C12: the completions of a query are merged under the mode in effect at
\* its AsyncGetHostByName call: whatever SetResolveMode calls are made while
\* it is in flight, the callbacks it has posted (how many, at which
\* completion, with which error) and its result are those the issuing mode
\* gives for the completions it has had.
C12_ModeSnapshot ==
    \A q \in QueryIds :
        queries[q].mode \in Modes =>
            LET R == Replay(NewQuery(queries[q].mode), queries[q].mode,
                            queries[q].log, 0)
            IN  /\ queries[q].posts = R.posts
                /\ queries[q].result = R.result

\* ---- C13
\* C13: request_count_ is never negative, also when a lookup completes
\* inside ares_gethostbyname, so that its decrement is posted before its
\* increment.
C13_CountNonNegative == request_count_ >= 0

\* ---- C14
\* C14: under ipv4_first, ipv6_first and both the callback is not posted
\* before both lookups have reported; it is posted by the second completion,
\* with no error when the accumulated result is not empty, even if a lookup
\* failed or was cancelled, and with the error code of the last completion
\* when the result is empty.
C14_ErrorSuppressed ==
    \A q \in QueryIds : \A mode \in {ipv4_first, ipv6_first, both} :
        Under(q, mode) =>
            LET Q == queries[q]
            IN  /\ Len(Q.log) < 2 => Q.posts = <<>>
                /\ Len(Q.log) = 2 =>
                      Q.posts = <<[at |-> 2,
                                   ec |-> IF Q.result # <<>> THEN NoError
                                          ELSE Q.log[2].ec]>>

\* C14, witness: under ipv4_first the first lookup brought data, the second
\* was cancelled, and the callback is queued with no error.
C14_Witness ==
    \E q \in QueryIds :
        /\ Under(q, ipv4_first)
        /\ Len(queries[q].log) = 2
        /\ HasData(queries[q].log[1])
        /\ queries[q].log[2].ec = ARES_ECANCELLED
        /\ \E i \in Queued(q) : context_[i].ec = NoError

\* ---- C15
\* C15: in a behaviour in which, from some point on, no lookup is pending
\* (every issued lookup has completed and no further one is issued), the
\* queued counter updates drain and from some point on request_count_ is 0
\* and timer_ has no pending wait: it is not armed again.
C15_TimerStops ==
    (<>[](Pending = {})) => <>[](request_count_ = 0 /\ timer_.waits = 0)

\* C15, witness: the last lookup has completed, its decrement is the next
\* task of strand_, and a handler of the expired timer is queued as well:
\* the two can run in either order.
C15_Witness ==
    /\ Pending = {}
    /\ request_count_ = 1
    /\ strand_ # <<>>
    /\ Head(strand_).op = "dec"
    /\ timer_.ok > 0

\* ---- C16
\* C16: timer_ has at most one pending wait in every state, through every
\* sequence of TimerStart, TimerStop, expiries and re-arms in TimerCallback.
C16_OneTimerWait == timer_.waits <= 1

\* C16, witness: TimerStart has armed the timer while a handler of an
\* earlier, expired wait is still queued.
C16_Witness ==
    /\ timer_.waits = 1
    /\ timer_.ok > 0
    /\ request_count_ = 1
    /\ Len(queries) = 2

\* ---- C17
\* C17: no two calls in progress at the same time touch the socket map,
\* request_count_ or the engine handle channel_: the application's
\* AsyncGetHostByName, a TimerCallback reading request_count_ and a task of
\* strand_ inside ares_process_fd never overlap.
Guarded == {"sockets_", "request_count_", "channel_"}

Overlap(a, b) == a # b /\ Touches(a.site) \cap Touches(b.site) \cap Guarded # {}

C17_NoOverlap == \A a \in inside : \A b \in inside : ~Overlap(a, b)

\* what the strand does give: its own tasks never overlap one another
StrandSerializes == Cardinality(Running("strand")) <= 1

\* the two overlaps C17 names, each reachable
CallerOverlapsProcess ==
    {Section("caller", "ares_gethostbyname"),
     Section("strand", "ares_process_fd")} \subseteq inside

TimerOverlapsCount ==
    /\ Section("context", "TimerCallback") \in inside
    /\ \E site \in {"increment", "decrement"} :
          Section("strand", site) \in inside

\* ---- C18
\* C18: the keys of sockets_ are the identifiers a successful OpenSocket
\* returned and CloseSocket has not been given since. A successful OpenSocket
\* adds its identifier and nothing else, a failed one leaves the map as it
\* is, CloseSocket removes its identifier and nothing else, and no other step
\* changes the map.
Opened == {handles[h].fd : h \in {k \in 1..Len(handles) : handles[k].open}}

OpenSteps(fails) ==
    \E type \in {SOCK_STREAM, SOCK_DGRAM} : \E fd \in Fds :
        OpenSocket(type, fd, fails)

MapStep ==
    /\ \A type \in {SOCK_STREAM, SOCK_DGRAM} : \A fd \in Fds :
          OpenSocket(type, fd, FALSE) =>
              /\ fd \notin OpenFds
              /\ OpenFds' = OpenFds \cup {fd}
              /\ sockets_ \subseteq sockets_'
    /\ OpenSteps(TRUE) /\ ~OpenSteps(FALSE) => sockets_' = sockets_
    /\ \A fd \in Fds :
          CloseSocket(fd) =>
              /\ OpenFds' = OpenFds \ {fd}
              /\ sockets_' \subseteq sockets_
    /\ ~(OpenSteps(FALSE) \/ \E fd \in Fds : CloseSocket(fd))
          => sockets_' = sockets_

C18_SocketMap ==
    /\ [](OpenFds = Opened /\ Cardinality(sockets_) = Cardinality(OpenFds))
    /\ [][MapStep]_vars

\* two sockets were opened and the first has been closed since
C18_Witness ==
    /\ Len(handles) = 2
    /\ ~handles[1].open
    /\ handles[2].open
    /\ handles[1].fd # handles[2].fd
    /\ OpenFds = {handles[2].fd}

\* ---- C19
\* C19: a wait handler registers its wait again exactly when the wait
\* completed without being cancelled, so that after
\* SocketStateCb(fd, readable, writeable) the Socket has a pending read wait
\* only if readable was set and a pending write wait only if writeable was.
OpenHandles == {h \in 1..Len(handles) : handles[h].open}

C19_WaitsFollowState ==
    \A h \in OpenHandles :
        /\ handles[h].rd > 0 => handles[h].readable
        /\ handles[h].wr > 0 => handles[h].writeable

\* the first half of C19 alone: the handler of an aborted wait registers
\* nothing, the handler of a wait that completed registers its own wait again
\* (on a closed socket the new wait completes at once with bad_descriptor)
HandlerStep(i) ==
    LET w == ready_[i]
        H == handles[w.h]
        rest == SubSeq(ready_, 1, i - 1) \o SubSeq(ready_, i + 1, Len(ready_))
    IN  IF w.ec # NoError
        THEN handles'[w.h].rd = H.rd /\ handles'[w.h].wr = H.wr /\ ready_' = rest
        ELSE IF H.open
             THEN /\ handles'[w.h].rd = H.rd + (IF w.dir = "read" THEN 1 ELSE 0)
                  /\ handles'[w.h].wr = H.wr + (IF w.dir = "write" THEN 1 ELSE 0)
             ELSE /\ Len(ready_') = Len(ready_)
                  /\ ready_'[Len(ready_)].ec = bad_descriptor

\* (a step that posts a task to strand_ is a step of WaitHandler)
RearmsIffNotCancelled ==
    [][Len(strand_') = Len(strand_) + 1
          => \E i \in 1..Len(ready_) : HandlerStep(i)]_vars

\* ---- C20
\* C20: every Socket has at most one pending read wait and at most one
\* pending write wait, whatever the order of SocketStateCb calls, readiness
\* and wait handlers.
C20_OneWaitPerDirection ==
    \A h \in 1..Len(handles) : handles[h].rd <= 1 /\ handles[h].wr <= 1

\* what does hold: SocketStateCb itself leaves at most one wait per direction
StateCbLeavesOneWait ==
    [][\A fd \in Fds : \A readable \in BOOLEAN : \A writeable \in BOOLEAN :
          SocketStateCb(fd, readable, writeable) =>
              /\ handles'[Find(fd)].rd = (IF readable THEN 1 ELSE 0)
              /\ handles'[Find(fd)].wr = (IF writeable THEN 1 ELSE 0)]_vars

\* ---- side conditions of the findings above
\* A query whose completions were all handled under the mode it was issued
\* with has its callback posted at most once, and once when every lookup
\* has reported, also when Cancel() aborted a lookup.
StableExactlyOnce ==
    \A q \in QueryIds : \A mode \in Modes :
        Under(q, mode) =>
            /\ queries[q].posted <= 1
            /\ Reported(q) => queries[q].posted = 1

\* With no counter update left on strand_ while a lookup is in flight,
\* timer_ is armed or its expired handler is about to arm it again.
TimerArmedInFlight ==
    (Pending # {} /\ \A i \in 1..Len(strand_) : strand_[i].op = "process")
        => (timer_.waits > 0 \/ timer_.ok > 0)

\* One half of C2_TimerIffCount: in a quiet state a positive request_count_
\* has timer_ armed.
TimerWhenQuiet == (Quiet /\ request_count_ > 0) => timer_.waits > 0

\* A reachable state of SpecTimer that TimerArmedInFlight is about: Cancel()
\* has stopped the timer, a decrement of the cancelled query is still queued
\* and a second query has both lookups pending.
FreshQueryAfterCancel ==
    /\ Len(queries) = 2
    /\ \A f \in {AF_INET, AF_INET6} : queries[2].sub[f] = "pending"
    /\ timer_.waits = 0
    /\ timer_.aborted > 0
    /\ Head(strand_).op = "dec"

====
